---- MODULE Spec2Model ----
(***************************************************************************)
(* Model of the essay grading service:                                     *)
(*   src/app/api/grade/route.ts      the POST handler of /api/grade        *)
(*   src/components/result-panel.tsx the ResultPanel / Metric display      *)
(*                                                                         *)
(* One POST request is followed from the arrival of the request to its     *)
(* response; the handler is cut at its awaits (formData, arrayBuffer,      *)
(* pdf-parse, mammoth, generateObject).  JavaScript values are tagged      *)
(* records, strings are sequences of pieces (single characters for essay   *)
(* text, larger pieces for media types, file names and messages).          *)
(***************************************************************************)
EXTENDS Integers, Sequences, FiniteSets, TLC

\* Longest essay text (form field, extracted or decoded text), in characters.
MaxLen == 2

----------------------------------------------------------------------------
\* JavaScript values

Undefined == [t |-> "undefined"]
Null == [t |-> "null"]
NaN == [t |-> "NaN"]
Str(s) == [t |-> "string", v |-> s]
Num(n) == [t |-> "number", v |-> n]
Arr(s) == [t |-> "array", v |-> s]
Err(m) == [t |-> "error", message |-> Str(m)]
FileOf(type, name) == [t |-> "file", type |-> type, name |-> name]

\* ToBoolean: what `x || d`, `!x` and `x ? a : b` test.
Truthy(x) ==
  CASE x.t = "string" -> x.v # <<>>
    [] x.t = "number" -> x.v # 0
    [] x.t \in {"file", "array", "error", "object"} -> TRUE
    [] OTHER -> FALSE

\* x || d
Or(x, d) == IF Truthy(x) THEN x ELSE d

IsWhiteSpace(c) == c = " "

RECURSIVE TrimStart(_)
TrimStart(s) ==
  IF s # <<>> /\ IsWhiteSpace(Head(s)) THEN TrimStart(Tail(s)) ELSE s

RECURSIVE TrimEnd(_)
TrimEnd(s) ==
  IF s # <<>> /\ IsWhiteSpace(s[Len(s)]) THEN TrimEnd(SubSeq(s, 1, Len(s) - 1)) ELSE s

\* String.prototype.trim
Trim(s) == TrimEnd(TrimStart(s))

\* x?.trim(): undefined when x is undefined or null
OptTrim(x) == IF x.t \in {"undefined", "null"} THEN Undefined ELSE Str(Trim(x.v))

StartsWith(s, p) == Len(s) >= Len(p) /\ SubSeq(s, 1, Len(p)) = p

EndsWith(s, p) == Len(s) >= Len(p) /\ SubSeq(s, Len(s) - Len(p) + 1, Len(s)) = p

LowerPiece(p) ==
  CASE p = ".PDF" -> ".pdf"
    [] p = ".DOCX" -> ".docx"
    [] p = ".TXT" -> ".txt"
    [] p = "Essay" -> "essay"
    [] OTHER -> p

\* String.prototype.toLowerCase
ToLowerCase(s) == [i \in DOMAIN s |-> LowerPiece(s[i])]

----------------------------------------------------------------------------
\* The inputs of a request

Chars == {" ", "a"}

Texts == UNION {[1..n -> Chars] : n \in 0..MaxLen}

PdfType == <<"application/", "pdf">>
DocxType == <<"application/", "vnd.openxmlformats-officedocument.wordprocessingml.document">>
PlainType == <<"text/", "plain">>
PngType == <<"image/", "png">>

FileTypes == {PdfType, DocxType, PlainType, PngType}

FileNames == {<<"Essay", ".PDF">>, <<"essay", ".docx">>, <<"notes", ".txt">>, <<"scan", ".png">>}

Files == {FileOf(ty, nm) : ty \in FileTypes, nm \in FileNames}

PastedKey == <<"pasted-key">>
EnvKey == <<"env-key">>

\* A body req.formData() cannot parse.
Malformed == [t |-> "malformed"]

Forms ==
  [t : {"form"},
   text : {Null} \cup {Str(s) : s \in Texts},
   file : {Null} \cup Files,
   apiKey : {Null, Str(<<>>), Str(PastedKey)}]

Requests == {Malformed} \cup Forms

\* process.env.GOOGLE_GENERATIVE_AI_API_KEY
Envs == {Undefined, Str(<<>>), Str(EnvKey)}

----------------------------------------------------------------------------
\* The output schema and what the external model can answer

RubricKeys == {"content", "organisation", "language", "style", "mechanics"}

IsString(x) == x.t = "string"

\* Mutation of IsNumberIn: the upper limit is not checked.
IsNumberAtLeast(x, lo, hi) == x.t = "number" /\ x.v >= lo

\* z.number().min(lo).max(hi)
IsNumberIn(x, lo, hi) == x.t = "number" /\ x.v >= lo /\ x.v <= hi

\* z.array(z.string())
IsStringArray(x) == x.t = "array" /\ \A i \in DOMAIN x.v : IsString(x.v[i])

\* the rubric object of ResultSchema
RubricSchema(r) ==
  /\ r.t = "object"
  /\ \A k \in RubricKeys : IsNumberIn(r[k], 0, 10)
  /\ IsString(r.comments)

\* ResultSchema.safeParse(o).success
ResultSchema(o) ==
  /\ o.t = "object"
  /\ IsString(o.grade)
  /\ IsNumberIn(o.score, 0, 100)
  /\ IsString(o.level)
  /\ IsString(o.summary)
  /\ IsStringArray(o.strengths)
  /\ IsStringArray(o.improvements)
  /\ RubricSchema(o.rubric)
  /\ IsString(o.inlineFeedback)

RubricOf(f) ==
  [t |-> "object", content |-> f["content"], organisation |-> f["organisation"],
   language |-> f["language"], style |-> f["style"], mechanics |-> f["mechanics"],
   comments |-> Str(<<"Develop paragraph 2.">>)]

BaseRubric == RubricOf([k \in RubricKeys |-> Num(5)])

BaseOutput ==
  [t |-> "object",
   grade |-> Str(<<"Adequate">>),
   score |-> Num(50),
   level |-> Str(<<"4">>),
   summary |-> Str(<<"The essay argues for school uniforms.">>),
   strengths |-> Arr(<<>>),
   improvements |-> Arr(<<Str(<<"Vary sentence openings.">>)>>),
   rubric |-> BaseRubric,
   inlineFeedback |-> Str(<<"### *****Content (4/7)*****">>)]

\* Answers that satisfy the schema: the ends of both ranges, an empty and a
\* non-empty summary.
ValidOutputs ==
  {[BaseOutput EXCEPT !.score = s, !.summary = m, !.rubric = RubricOf(f)] :
     s \in {Num(0), Num(100)},
     m \in {Str(<<>>), BaseOutput.summary},
     f \in [RubricKeys -> {Num(0), Num(10)}]}

BadNumbers == {Num(0 - 1), Str(<<"7">>), NaN, Undefined}

\* Answers with one field that breaks the schema: out of range, of the wrong
\* type, or missing.
FaultyOutputs ==
  {[BaseOutput EXCEPT !.score = s] : s \in BadNumbers \cup {Num(101)}}
  \cup {[BaseOutput EXCEPT !.rubric = [BaseRubric EXCEPT ![k] = x]] :
          k \in RubricKeys, x \in BadNumbers \cup {Num(11)}}
  \cup {[BaseOutput EXCEPT !.rubric = Undefined],
        [BaseOutput EXCEPT !.rubric = [BaseRubric EXCEPT !.comments = Undefined]],
        [BaseOutput EXCEPT !.summary = Undefined],
        [BaseOutput EXCEPT !.grade = Num(3)],
        [BaseOutput EXCEPT !.level = Undefined],
        [BaseOutput EXCEPT !.strengths = Arr(<<Num(1)>>)],
        [BaseOutput EXCEPT !.improvements = Str(<<"none">>)],
        [BaseOutput EXCEPT !.inlineFeedback = Undefined],
        Str(<<"I cannot grade this.">>)}

ModelOutputs == ValidOutputs \cup FaultyOutputs

\* What a collaborator (req.formData, pdf-parse, mammoth, the provider) can throw.
ThrownErrors == {Err(<<"fetch failed">>), Err(<<>>)}

SchemaError == Err(<<"No object generated: response did not match schema.">>)

----------------------------------------------------------------------------
\* The POST handler

VARIABLES
  pc,                 \* where the handler is: the await it is suspended at
  req,                \* the request (its form, or a body that does not parse)
  env,                \* process.env.GOOGLE_GENERATIVE_AI_API_KEY
  text, file, pastedApiKey,
  essayText, extractionWarning,
  apiKey, provider,
  output,             \* what the external model answered
  object,             \* what generateObject resolved with
  err,                \* what the catch block caught
  response,           \* the response of the request
  calls,              \* the generateObject calls made, in order
  extractions,        \* the text extractions started, in order
  result, rendered    \* ResultPanel: its prop and what it displays

handlerVars ==
  <<pc, req, env, text, file, pastedApiKey, essayText, extractionWarning,
    apiKey, provider, output, object, err, response, calls, extractions>>

panelVars == <<result, rendered>>

vars == <<handlerVars, panelVars>>

NoResponse == [status |-> 0, body |-> Undefined]

TextResponse(body, status) == [status |-> status, body |-> Str(body)]

UnsupportedMessage == <<"Unsupported file type. Please upload PDF or DOCX.">>
NoEssayMessage == <<"No essay text found. Upload a PDF/DOCX with text or paste your essay.">>
FailedMessage == <<"Failed to grade essay.">>
PdfWarningMessage == <<"No selectable text found in PDF. If this is a scanned document, please paste your essay text directly for best results.">>
DocxWarningMessage == <<"DOCX appears empty. Please ensure it contains text, or paste your essay directly.">>

IsPdf(f) == f.type = PdfType \/ EndsWith(ToLowerCase(f.name), <<".pdf">>)

IsDocx(f) == f.type = DocxType \/ EndsWith(ToLowerCase(f.name), <<".docx">>)

\* Mutation of IsPlainText: any declared type with a slash counts as text.
IsPlainTextLoose(f) == Len(f.type) > 1 \/ EndsWith(ToLowerCase(f.name), <<".txt">>)

IsPlainText(f) == StartsWith(f.type, <<"text/">>) \/ EndsWith(ToLowerCase(f.name), <<".txt">>)

\* Mutation of NeedsExtraction: the upload is looked at even with pasted text.
NeedsExtractionAnyFile(e, f) == Truthy(f)

\* if (!essayText && file): the upload is looked at only without pasted text
NeedsExtraction(e, f) == ~Truthy(e) /\ Truthy(f)

\* Mutation of WarningAfter: the warning is set after every extraction.
WarningAlways(e, message) == Str(message)

\* the warning set after an extraction left essayText at e
WarningAfter(e, message) == IF ~Truthy(e) THEN Str(message) ELSE extractionWarning

\* Mutation of NoEssay: only a missing essay is rejected, not an empty one.
NoEssayUndefinedOnly(e) == e.t = "undefined"

\* if (!essayText): the request is rejected as empty
NoEssay(e) == ~Truthy(e)

\* Mutation of ChooseApiKey: the process-wide key comes first.
ChooseApiKeyEnvFirst(pasted, environment) == Or(Or(environment, pasted), Str(<<>>))

\* pastedApiKey || process.env.GOOGLE_GENERATIVE_AI_API_KEY || ""
ChooseApiKey(pasted, environment) == Or(Or(pasted, environment), Str(<<>>))

GoogleDefault == [kind |-> "google"]

\* apiKey ? createGoogleGenerativeAI({ apiKey }) : google
ChooseProvider(key) ==
  IF Truthy(key) THEN [kind |-> "createGoogleGenerativeAI", apiKey |-> key.v]
  ELSE GoogleDefault

\* The key the provider sends: its own, or for the default provider the
\* process-wide one; without a key the call fails.
HasCredential(p, environment) ==
  IF p.kind = "google" THEN Truthy(environment) ELSE p.apiKey # <<>>

\* Mutation of Payload: the summary of the model is kept.
PayloadKeepsSummary(o, warning) ==
  [t |-> "object",
   grade |-> o.grade,
   score |-> o.score,
   level |-> o.level,
   summary |-> o.summary,
   strengths |-> o.strengths,
   improvements |-> o.improvements,
   rubric |-> o.rubric,
   inlineFeedback |-> o.inlineFeedback,
   meta |-> [extractionWarning |-> warning, model |-> Str(<<"gemini-1.5-flash">>)]]

\* { ...object, summary: "", meta: { extractionWarning, model } }
Payload(o, warning) ==
  [t |-> "object",
   grade |-> o.grade,
   score |-> o.score,
   level |-> o.level,
   summary |-> Str(<<>>),
   strengths |-> o.strengths,
   improvements |-> o.improvements,
   rubric |-> o.rubric,
   inlineFeedback |-> o.inlineFeedback,
   meta |-> [extractionWarning |-> warning, model |-> Str(<<"gemini-1.5-flash">>)]]

\* NextResponse.json(payload)
JsonResponse(payload) == [status |-> 200, body |-> payload]

\* Mutation of CatchResponse: the message of the exception is not passed on.
CatchResponseGeneric(e) == [status |-> 500, body |-> Str(<<"Failed to grade essay.">>)]

\* new NextResponse(err?.message || "Failed to grade essay.", { status: 500 })
CatchResponse(e) == [status |-> 500, body |-> Or(e.message, Str(FailedMessage))]

\* catch (err): the request ends with the 500 response
Catch(e) ==
  /\ err' = e
  /\ response' = CatchResponse(e)
  /\ pc' = "done"

\* return new NextResponse(message, { status: 400 })
Reject(message) ==
  /\ response' = TextResponse(message, 400)
  /\ pc' = "done"
  /\ UNCHANGED err

\* Lines 117-147 up to the await: the empty-essay rejection, or the choice of
\* the provider and the call of generateObject with the essay e.
CheckAndCall(e) ==
  IF NoEssay(e)
  THEN /\ Reject(NoEssayMessage)
       /\ UNCHANGED <<apiKey, provider, calls>>
  ELSE LET key == ChooseApiKey(pastedApiKey', env) IN
       /\ apiKey' = key
       /\ provider' = ChooseProvider(key)
       /\ calls' = Append(calls, [provider |-> ChooseProvider(key), essay |-> e.v])
       /\ pc' = "generateObject"
       /\ UNCHANGED <<err, response>>

Init ==
  /\ pc = "formData"
  /\ req \in Requests
  /\ env \in Envs
  /\ text = Undefined
  /\ file = Undefined
  /\ pastedApiKey = Undefined
  /\ essayText = Undefined
  /\ extractionWarning = Undefined
  /\ apiKey = Undefined
  /\ provider = Undefined
  /\ output = Undefined
  /\ object = Undefined
  /\ err = Undefined
  /\ response = NoResponse
  /\ calls = <<>>
  /\ extractions = <<>>
  /\ result = Undefined
  /\ rendered = Undefined

\* await req.formData() and lines 80-87; without an extraction to do the
\* handler runs on to line 117.
FormData ==
  /\ pc = "formData"
  /\ UNCHANGED <<req, env, output, object, extractions, panelVars>>
  /\ IF req = Malformed
     THEN /\ \E e \in ThrownErrors : Catch(e)
          /\ UNCHANGED <<text, file, pastedApiKey, essayText, extractionWarning,
                         apiKey, provider, calls>>
     ELSE LET t == Or(req.text, Str(<<>>))
              e == Or(OptTrim(t), Str(<<>>))
          IN /\ text' = t
             /\ file' = req.file
             /\ pastedApiKey' = Or(req.apiKey, Str(<<>>))
             /\ essayText' = e
             /\ extractionWarning' = Undefined
             /\ IF NeedsExtraction(e, req.file)
                THEN /\ pc' = "arrayBuffer"
                     /\ UNCHANGED <<apiKey, provider, calls, err, response>>
                ELSE CheckAndCall(e)

\* await file.arrayBuffer() and the dispatch on the file's type and name; a
\* text file is decoded at once and the handler runs on to line 117.
ArrayBuffer ==
  /\ pc = "arrayBuffer"
  /\ UNCHANGED <<req, env, text, file, pastedApiKey, extractionWarning, output,
                 object, panelVars>>
  /\ IF IsPdf(file)
     THEN /\ pc' = "pdfParse"
          /\ extractions' = Append(extractions, "pdf-parse")
          /\ UNCHANGED <<essayText, apiKey, provider, err, response, calls>>
     ELSE IF IsDocx(file)
     THEN /\ pc' = "extractRawText"
          /\ extractions' = Append(extractions, "mammoth")
          /\ UNCHANGED <<essayText, apiKey, provider, err, response, calls>>
     ELSE IF IsPlainText(file)
     THEN \E decoded \in Texts :
            /\ extractions' = Append(extractions, "utf-8")
            /\ essayText' = Str(Trim(decoded))
            /\ CheckAndCall(Str(Trim(decoded)))
     ELSE /\ Reject(UnsupportedMessage)
          /\ UNCHANGED <<essayText, apiKey, provider, calls, extractions>>

\* What an extraction library hands back as text: nothing, or some text.
ExtractedTexts == {Undefined} \cup {Str(s) : s \in Texts}

\* Lines 94-98 and 106-109: the extracted text becomes the essay, the warning
\* is set when there is none, and the handler runs on to line 117.
AfterExtraction(extracted, message) ==
  LET e == Or(OptTrim(extracted), Str(<<>>)) IN
  /\ essayText' = e
  /\ extractionWarning' = WarningAfter(e, message)
  /\ CheckAndCall(e)

\* await import("pdf-parse") and await pdfParse(buf)
PdfParse ==
  /\ pc = "pdfParse"
  /\ UNCHANGED <<req, env, text, file, pastedApiKey, output, object, extractions,
                 panelVars>>
  /\ \/ \E parsed \in ExtractedTexts : AfterExtraction(parsed, PdfWarningMessage)
     \/ /\ \E e \in ThrownErrors : Catch(e)
        /\ UNCHANGED <<essayText, extractionWarning, apiKey, provider, calls>>

\* await import("mammoth") and await extractRawText({ buffer: buf })
ExtractRawText ==
  /\ pc = "extractRawText"
  /\ UNCHANGED <<req, env, text, file, pastedApiKey, output, object, extractions,
                 panelVars>>
  /\ \/ \E out \in ExtractedTexts : AfterExtraction(out, DocxWarningMessage)
     \/ /\ \E e \in ThrownErrors : Catch(e)
        /\ UNCHANGED <<essayText, extractionWarning, apiKey, provider, calls>>

\* await generateObject({ model, schema, system, prompt }) and lines 149-162.
\* The call fails before or at the provider, or the model answers and the
\* answer is checked against the schema: generateObject resolves with an
\* answer that passes and throws on one that does not.
GenerateObject ==
  /\ pc = "generateObject"
  /\ UNCHANGED <<req, env, text, file, pastedApiKey, essayText, extractionWarning,
                 apiKey, provider, calls, extractions, panelVars>>
  /\ \/ /\ \E e \in ThrownErrors : Catch(e)
        /\ UNCHANGED <<output, object>>
     \/ /\ HasCredential(provider, env)
        /\ \E o \in ModelOutputs :
             /\ output' = o
             /\ IF ResultSchema(o)
                THEN /\ object' = o
                     /\ response' = JsonResponse(Payload(o, extractionWarning))
                     /\ pc' = "done"
                     /\ UNCHANGED err
                ELSE /\ Catch(SchemaError)
                     /\ UNCHANGED object

Next == FormData \/ ArrayBuffer \/ PdfParse \/ ExtractRawText \/ GenerateObject

Spec == Init /\ [][Next]_vars

----------------------------------------------------------------------------
\* The result display

\* Rubric values handed to Metric: inside the scale, outside it, not a number.
DisplayValues == {Num(0 - 1), Num(0), Num(7), Num(10), Num(12), NaN}

\* The result prop of ResultPanel: nothing yet, or a result whose rubric need
\* not have gone through the schema.
PanelResults ==
  {Undefined} \cup
  {[BaseOutput EXCEPT !.rubric = RubricOf(f)] : f \in [RubricKeys -> DisplayValues]}

\* const r = result || { ... }
DefaultResult ==
  [t |-> "object",
   grade |-> Str(<<"-">>),
   score |-> Num(0),
   level |-> Str(<<"-">>),
   summary |-> Str(<<>>),
   strengths |-> Arr(<<>>),
   improvements |-> Arr(<<>>),
   rubric |-> [t |-> "object", content |-> Num(0), organisation |-> Num(0),
               language |-> Num(0), style |-> Num(0), mechanics |-> Num(0),
               comments |-> Str(<<>>)],
   inlineFeedback |-> Str(<<>>)]

Min(a, b) == IF a <= b THEN a ELSE b

Max(a, b) == IF a >= b THEN a ELSE b

\* Mutation of Metric: the value is not capped at 10.
MetricUncapped(value) ==
  LET v == Max(0, Or(value, Num(0)).v) IN
  [v |-> v, width |-> v * 10]

\* Metric: v = Math.max(0, Math.min(10, value || 0)), the bar is v * 10 percent
\* wide and v is the number shown.
Metric(value) ==
  LET v == Max(0, Min(10, Or(value, Num(0)).v)) IN
  [v |-> v, width |-> v * 10]

InitPanel ==
  /\ pc = "idle"
  /\ req = Malformed
  /\ env = Undefined
  /\ text = Undefined
  /\ file = Undefined
  /\ pastedApiKey = Undefined
  /\ essayText = Undefined
  /\ extractionWarning = Undefined
  /\ apiKey = Undefined
  /\ provider = Undefined
  /\ output = Undefined
  /\ object = Undefined
  /\ err = Undefined
  /\ response = NoResponse
  /\ calls = <<>>
  /\ extractions = <<>>
  /\ result \in PanelResults
  /\ rendered = Undefined

\* ResultPanel({ result }): the score and the five Metric bars
ResultPanel ==
  /\ rendered = Undefined
  /\ LET r == Or(result, DefaultResult) IN
       rendered' = [score |-> r.score,
                    metrics |-> [k \in RubricKeys |-> Metric(r.rubric[k])]]
  /\ UNCHANGED <<result, handlerVars>>

NextPanel == ResultPanel

SpecPanel == InitPanel /\ [][NextPanel]_vars

----------------------------------------------------------------------------
\* Properties

IsForm == req.t = "form"

Done == pc = "done"

\* the text field is absent or holds nothing but white space
TextBlank == req.text = Null \/ \A i \in DOMAIN req.text.v : req.text.v[i] = " "

HasFile == req.file # Null

\* an extraction ran to its end and found no text
ExtractedNothing ==
  /\ extractions # <<>>
  /\ pc \in {"generateObject", "done"}
  /\ err = Undefined
  /\ essayText = Str(<<>>)

\* C1: a request whose resolved essay text is empty (blank text and no file,
\* or blank text and a supported file whose extraction finds no text) never
\* reaches generateObject and ends with the 400 empty-essay response.
C1_EmptyEssayRejected ==
  (IsForm /\ TextBlank /\ (~HasFile \/ ExtractedNothing)) =>
    /\ calls = <<>>
    /\ Done => response = TextResponse(NoEssayMessage, 400)

C1_Witness ==
  /\ Done /\ IsForm /\ TextBlank /\ HasFile
  /\ extractions = <<"pdf-parse">>
  /\ ExtractedNothing
  /\ extractionWarning = Str(PdfWarningMessage)
  /\ response.status = 400
  /\ calls = <<>>

\* the declared media type is none of PDF, .docx, text/*
UnsupportedType(ty) == ty # PdfType /\ ty # DocxType /\ ty[1] # "text/"

SupportedExtensions == {".pdf", ".PDF", ".docx", ".DOCX", ".txt", ".TXT"}

UnsupportedName(nm) == nm[Len(nm)] \notin SupportedExtensions

\* C2 as stated: a request carrying a file of an unsupported declared media
\* type is rejected with 400 before any extraction and any model call,
\* whatever the other form fields and the file name are.
C2_Original ==
  (IsForm /\ HasFile /\ UnsupportedType(req.file.type)) =>
    /\ extractions = <<>>
    /\ calls = <<>>
    /\ Done => response.status = 400

\* C2 amended: a request with blank text carrying a file whose declared media
\* type is unsupported and whose name ends in none of .pdf, .docx, .txt (in
\* any letter case) is rejected with the 400 unsupported-type response before
\* any extraction and any model call.
C2_UnsupportedRejected ==
  (IsForm /\ TextBlank /\ HasFile /\ UnsupportedType(req.file.type)
     /\ UnsupportedName(req.file.name)) =>
    /\ extractions = <<>>
    /\ calls = <<>>
    /\ Done => response = TextResponse(UnsupportedMessage, 400)

C2_Witness ==
  /\ Done /\ IsForm /\ TextBlank /\ HasFile
  /\ req.file.type = PngType
  /\ UnsupportedName(req.file.name)
  /\ response = TextResponse(UnsupportedMessage, 400)
  /\ extractions = <<>>
  /\ calls = <<>>

\* C3: a request whose text is not blank is not rejected as empty and makes
\* exactly one generateObject call: never a second one, and one by the time
\* the request ends, which it does with 200 or 500.
C3_ExactlyOneCall ==
  (IsForm /\ ~TextBlank) =>
    /\ Len(calls) <= 1
    /\ Done => /\ Len(calls) = 1
               /\ response.status \in {200, 500}

C3_Witness ==
  /\ Done /\ IsForm /\ ~TextBlank /\ HasFile
  /\ Len(calls) = 1
  /\ response.status = 200

\* C4: the summary of every 200 response is the empty string, whatever
\* summary the model's object had.
C4_SummaryEmpty ==
  response.status = 200 => response.body.summary = Str(<<>>)

C4_Witness ==
  /\ response.status = 200
  /\ object.summary = BaseOutput.summary
  /\ response.body.summary = Str(<<>>)

\* C5 as stated: whatever is thrown is caught and the request ends with a 500
\* response whose body is the exception's message, and with no result.
C5_Original ==
  err # Undefined =>
    /\ Done
    /\ response = [status |-> 500, body |-> err.message]
    /\ object = Undefined

\* C5 amended: whatever is thrown is caught and the request ends with a 500
\* response whose body is the exception's message when that message is not
\* empty and the text "Failed to grade essay." when it is, and with no
\* result; a call made without any credential ends this way.
C5_ThrowGives500 ==
  /\ err # Undefined =>
       /\ Done
       /\ response.status = 500
       /\ response.body =
            IF err.message.v # <<>> THEN err.message ELSE Str(FailedMessage)
       /\ object = Undefined
  /\ (Done /\ calls # <<>> /\ req.apiKey \in {Null, Str(<<>>)}
        /\ env \in {Undefined, Str(<<>>)}) =>
       /\ err # Undefined
       /\ response.status = 500

C5_Witness ==
  /\ Done /\ IsForm
  /\ req.apiKey = Null /\ env = Undefined
  /\ Len(calls) = 1
  /\ err = Err(<<"fetch failed">>)
  /\ response = [status |-> 500, body |-> Str(<<"fetch failed">>)]

InRange(x, lo, hi) == x.t = "number" /\ lo <= x.v /\ x.v <= hi

\* C6: every 200 response carries a score in [0,100] and five sub-scores in
\* [0,10]; an answer of the model with a missing field, a wrong type or an
\* out-of-range number ends the request with 500 and is not returned.
C6_OnlyValidReturned ==
  /\ response.status = 200 =>
       /\ InRange(response.body.score, 0, 100)
       /\ \A k \in RubricKeys : InRange(response.body.rubric[k], 0, 10)
       /\ response.body.score = output.score
       /\ response.body.rubric = output.rubric
  /\ output \in FaultyOutputs =>
       /\ Done
       /\ response.status = 500
       /\ object = Undefined

C6_Witness ==
  /\ Done
  /\ output = [BaseOutput EXCEPT !.rubric = [BaseRubric EXCEPT !.language = Num(11)]]
  /\ response.status = 500
  /\ object = Undefined

Abs(n) == IF n < 0 THEN 0 - n ELSE n

\* C7: in every 200 response no two of the five sub-scores differ by more
\* than 2.
C7_RubricConsistent ==
  response.status = 200 =>
    \A j, k \in RubricKeys :
      Abs(response.body.rubric[j].v - response.body.rubric[k].v) <= 2

NonEmpty(x) == x.t = "string" /\ x.v # <<>>

\* the provider the resolution order of C8 gives
ExpectedProvider ==
  IF NonEmpty(req.apiKey)
  THEN [kind |-> "createGoogleGenerativeAI", apiKey |-> req.apiKey.v]
  ELSE IF NonEmpty(env)
  THEN [kind |-> "createGoogleGenerativeAI", apiKey |-> env.v]
  ELSE GoogleDefault

\* C8: every generateObject call uses the per-request key when the apiKey
\* field is non-empty, else the process-wide key, else the default provider;
\* a request with an essay is not turned away for having no key: the call is
\* made.
C8_CredentialOrder ==
  /\ \A i \in DOMAIN calls : calls[i].provider = ExpectedProvider
  /\ (pc \in {"generateObject", "done"} /\ IsForm /\ NonEmpty(essayText)) =>
       Len(calls) = 1

C8_Witness ==
  /\ Done /\ IsForm
  /\ req.apiKey = Str(PastedKey) /\ env = Str(EnvKey)
  /\ Len(calls) = 1
  /\ calls[1].provider = [kind |-> "createGoogleGenerativeAI", apiKey |-> PastedKey]
  /\ response.status = 200

\* the result ResultPanel displays
Displayed == IF result = Undefined THEN DefaultResult ELSE result

\* C9: when the panel renders, each Metric shows a number in [0,10] and a bar
\* of ten times that many percent: 100% for a value above 10, 0% for a value
\* below 0, the value itself inside [0,10]; the result is left as it was.
C9_MetricClamped ==
  [][(rendered = Undefined /\ rendered' # Undefined) =>
       /\ result' = result
       /\ \A k \in RubricKeys :
            LET value == Displayed.rubric[k]
                m == rendered'.metrics[k]
            IN /\ m.v \in 0..10
               /\ m.width = m.v * 10
               /\ (value.t = "number" /\ value.v > 10) => m.width = 100
               /\ (value.t = "number" /\ value.v < 0) => m.width = 0
               /\ InRange(value, 0, 10) => m.v = value.v]_vars

C9_Witness ==
  /\ rendered # Undefined
  /\ result # Undefined
  /\ result.rubric.content = Num(12)
  /\ rendered.metrics.content = [v |-> 10, width |-> 100]
  /\ result.rubric.style = Num(0 - 1)
  /\ rendered.metrics.style = [v |-> 0, width |-> 0]
  /\ result.rubric.language = Num(7)
  /\ rendered.metrics.language = [v |-> 7, width |-> 70]

\* C10: no 200 response carries an extraction warning, and no call of the
\* model is made with one set: the warning is set only where the extracted
\* text is empty, and those requests end with the 400 empty-essay response.
C10_NoWarningOnSuccess ==
  /\ response.status = 200 => response.body.meta.extractionWarning = Undefined
  /\ calls # <<>> => extractionWarning = Undefined
  /\ extractionWarning \notin {Undefined} =>
       /\ essayText = Str(<<>>)
       /\ Done /\ response = TextResponse(NoEssayMessage, 400)

C10_Witness ==
  /\ response.status = 200
  /\ extractions = <<"pdf-parse">>
  /\ response.body.meta.extractionWarning = Undefined

====
